---- MODULE Spec2Model ----
(***************************************************************************)
(* A model of the Sandpack playground root of the documentation site:      *)
(*   src/src/components/MDX/Sandpack/SandpackRoot.tsx  (variant Named)     *)
(*   src/unnamed/part_000                              (variant Unnamed)   *)
(* The two files are two revisions of the same component.  They differ in  *)
(* the template texts and in the set of files injected in demo mode; the   *)
(* model carries the revision as the variable `variant`.                   *)
(*                                                                         *)
(* Encoding of JavaScript values.                                          *)
(*   - a string is a sequence of characters; every character that is not   *)
(*     a line feed is irrelevant to the component, so a run of such        *)
(*     characters is written as one token;                                 *)
(*   - a value that may be undefined is a set: {} is undefined, {v} is v;  *)
(*   - an object is a function from its own property names to values, so   *)
(*     an object WITHOUT a property is told apart from one with it.        *)
(***************************************************************************)
EXTENDS Integers, Sequences, FiniteSets, TLC

VARIABLES
    variant,        \* which revision of the component is running
    props,          \* SandpackProps: children, autorun, serverComponents
    phase,          \* "props" before SandpackRoot has run, "rendered" after
    threw,          \* SandpackRoot ended by throwing
    files,          \* the file map handed to SandpackProvider
    options,        \* the options handed to SandpackProvider
    template,       \* the template handed to SandpackProvider
    customSetup,    \* the customSetup handed to SandpackProvider
    sandpack,       \* the provider's state read by Contents: files, activeFile
    mounted,        \* Contents has rendered at least once
    lineCountRef,   \* Contents: lineCountRef.current
    isExpandable,   \* Contents: the flag passed to SandboxShell
    firstSeen,      \* history: the text each path had when first rendered active
    edits,          \* number of edits made so far (bounded by MaxEdits)
    isExpanded,     \* SandboxShell: the isExpanded state
    layoutClass,    \* SandboxShell: the className given to SandpackLayout
    fetcher,        \* HTML_CODE: one call of window.fetch (fetchWithRetry)
    script          \* SCRIPT_CODE: one run of the entry script (build, main)

vars == <<variant, props, phase, threw, files, options, template, customSetup,
          sandpack, mounted, lineCountRef, isExpandable, firstSeen, edits,
          isExpanded, layoutClass, fetcher, script>>

rootVars == <<variant, props, phase, threw, files, options, template, customSetup>>
contentsVars == <<sandpack, mounted, lineCountRef, isExpandable, firstSeen, edits>>
shellVars == <<isExpanded, layoutClass>>
demoVars == <<fetcher, script>>
componentVars == <<rootVars, contentsVars, shellVars>>

(***************************************************************************)
(* Bounds of the model.                                                    *)
(***************************************************************************)
MaxFiles == 2       \* author code snippets per sandbox
MaxEdits == 2       \* edits of file text per component instance

Named == "SandpackRoot.tsx"
Unnamed == "part_000"
Variants == {Named, Unnamed}

(***************************************************************************)
(* JavaScript values.                                                      *)
(***************************************************************************)
NL == "\n"

Undefined == {}

Some(x) == {x}

\* The value held by a defined optional.
TheValue(opt) == CHOOSE x \in opt : TRUE

\* a ?? b
Nullish(opt, default) == IF opt = Undefined THEN default ELSE TheValue(opt)

\* !a, for a an optional boolean (undefined is falsy).
Not(opt) == opt = Undefined \/ TheValue(opt) = FALSE

\* obj?.[key]?.field : never throws; undefined when the entry or the property
\* is missing.
OptionalChain_Strict(obj, key, field) ==
    IF key \in DOMAIN obj
    THEN [threw |-> FALSE,
          val |-> IF field \in DOMAIN obj[key] THEN Some(obj[key][field]) ELSE Undefined]
    ELSE [threw |-> TRUE, val |-> Undefined]

OptionalChain(obj, key, field) ==
    [threw |-> FALSE,
     val |-> IF key \in DOMAIN obj /\ field \in DOMAIN obj[key]
             THEN Some(obj[key][field])
             ELSE Undefined]

\* obj[key] = value
Put(obj, key, value) ==
    [k \in DOMAIN obj \cup {key} |-> IF k = key THEN value ELSE obj[k]]

\* Array.prototype.join
RECURSIVE Join(_, _)
Join(parts, sep) ==
    IF Len(parts) = 0 THEN <<>>
    ELSE IF Len(parts) = 1 THEN parts[1]
    ELSE parts[1] \o sep \o Join(Tail(parts), sep)

\* A template literal of n lines: its content is one token, its line
\* structure is kept.
TemplateText(tag, n) == [i \in 1..n |-> IF i = 1 THEN tag ELSE NL]

\* String.prototype.split('\n').length : one segment more than there are
\* separators.
SplitLength(code) == Cardinality({i \in DOMAIN code : code[i] = NL}) + 1

IsPrefix(p, s) == Len(p) <= Len(s) /\ SubSeq(s, 1, Len(p)) = p

(***************************************************************************)
(* The fixed texts.                                                        *)
(***************************************************************************)
\* const sandboxStyle = `...`.trim()  (47 lines in both revisions)
sandboxStyle == TemplateText("sandboxStyle", 47)

SCRIPT_CODE(v) ==
    IF v = Named THEN TemplateText("SCRIPT_CODE@SandpackRoot.tsx", 90)
    ELSE TemplateText("SCRIPT_CODE@part_000", 135)

SERVER_CODE(v) ==
    IF v = Named THEN TemplateText("SERVER_CODE@SandpackRoot.tsx", 3)
    ELSE TemplateText("SERVER_CODE@part_000", 27)

\* Only in part_000.
ROUTER_CODE == TemplateText("ROUTER_CODE@part_000", 114)

HTML_CODE(v) ==
    IF v = Named THEN TemplateText("HTML_CODE@SandpackRoot.tsx", 35)
    ELSE TemplateText("HTML_CODE@part_000", 35)

\* Only in part_000.
CLIENT_ROOT == TemplateText("CLIENT_ROOT@part_000", 9)

BundlerURL == "https://1e4ad8f7.sandpack-bundler-4bw.pages.dev"

\* The object literal given to JSON.stringify: a JSON value is [str |-> s],
\* [lit |-> t] for a nested literal kept as one token, or [obj |-> pairs].
PackageManifest(v) ==
    [obj |->
        IF v = Named
        THEN << <<"dependencies", [lit |-> "{21 packages}"]>>,
                <<"devDependencies", [lit |-> "{4 packages}"]>>,
                <<"scripts", [obj |-> << <<"start", [str |-> "node script.js"]>> >>]>>,
                <<"main", [str |-> "script.js"]>> >>
        ELSE << <<"dependencies", [lit |-> "{17 packages}"]>>,
                <<"babel", [lit |-> "{presets}"]>>,
                <<"scripts", [obj |-> << <<"start", [str |-> "node script.js"]>> >>]>>,
                <<"main", [str |-> "script.js"]>> >>]

JSONString(s) == <<"\"", s, "\"">>

\* JSON.stringify(value): one line, members in insertion order.
RECURSIVE JSONStringify(_)
JSONStringify(value) ==
    IF "str" \in DOMAIN value THEN JSONString(value.str)
    ELSE IF "lit" \in DOMAIN value THEN <<value.lit>>
    ELSE <<"{">>
         \o Join([i \in 1..Len(value.obj) |->
                    JSONString(value.obj[i][1]) \o <<":">> \o JSONStringify(value.obj[i][2])],
                 <<",">>)
         \o <<"}">>

(***************************************************************************)
(* createFileMap (./createFileMap, not among the sources): one record      *)
(* {code, hidden} per snippet, keyed by the snippet's path.                *)
(***************************************************************************)
createFileMap(codeSnippets) ==
    LET paths == {codeSnippets[i].path : i \in DOMAIN codeSnippets}
        last(p) == CHOOSE i \in DOMAIN codeSnippets :
                       /\ codeSnippets[i].path = p
                       /\ \A j \in DOMAIN codeSnippets : codeSnippets[j].path = p => j <= i
    IN  [p \in paths |-> [code |-> codeSnippets[last(p)].code,
                          hidden |-> codeSnippets[last(p)].hidden]]

(***************************************************************************)
(* SandpackRoot.                                                           *)
(***************************************************************************)
StylesPath == "/styles.css"

\* let {children, autorun = true, serverComponents = false} = props;
Autorun(p) == Nullish(p.autorun, TRUE)

ServerComponents_DefaultTrue(p) == Nullish(p.serverComponents, TRUE)

ServerComponents(p) == Nullish(p.serverComponents, FALSE)

\* The right-hand side of  files['/styles.css'] = {...}
StylesheetEntry_AuthorFirst(fs) ==
    [code |-> Join(<<Nullish(OptionalChain(fs, StylesPath, "code").val, <<>>),
                     sandboxStyle>>, <<NL, NL>>),
     hidden |-> Not(OptionalChain(fs, StylesPath, "visible").val)]

StylesheetEntry(fs) ==
    [code |-> Join(<<sandboxStyle,
                     Nullish(OptionalChain(fs, StylesPath, "code").val, <<>>)>>,
                   <<NL, NL>>),
     hidden |-> Not(OptionalChain(fs, StylesPath, "visible").val)]

StylesheetThrows(fs) ==
    \/ OptionalChain(fs, StylesPath, "code").threw
    \/ OptionalChain(fs, StylesPath, "visible").threw

\* The assignments of the  if (serverComponents) {...}  block, in order.
InjectedFiles_Visible(v) ==
    IF v = Named
    THEN << <<"script.js", [code |-> SCRIPT_CODE(v), hidden |-> TRUE]>>,
            <<"server.js", [code |-> SERVER_CODE(v), hidden |-> FALSE]>>,
            <<"serverIndex.html", [code |-> HTML_CODE(v), hidden |-> TRUE]>>,
            <<"package.json", [code |-> JSONStringify(PackageManifest(v)), hidden |-> TRUE]>> >>
    ELSE << <<"script.js", [code |-> SCRIPT_CODE(v), hidden |-> TRUE]>>,
            <<"server.js", [code |-> SERVER_CODE(v), hidden |-> FALSE]>>,
            <<"router.js", [code |-> ROUTER_CODE, hidden |-> TRUE]>>,
            <<"serverIndex.html", [code |-> HTML_CODE(v), hidden |-> TRUE]>>,
            <<"ClientRoot.js", [code |-> CLIENT_ROOT, hidden |-> TRUE]>>,
            <<"package.json", [code |-> JSONStringify(PackageManifest(v)), hidden |-> TRUE]>> >>

InjectedFiles(v) ==
    IF v = Named
    THEN << <<"script.js", [code |-> SCRIPT_CODE(v), hidden |-> TRUE]>>,
            <<"server.js", [code |-> SERVER_CODE(v), hidden |-> TRUE]>>,
            <<"serverIndex.html", [code |-> HTML_CODE(v), hidden |-> TRUE]>>,
            <<"package.json", [code |-> JSONStringify(PackageManifest(v)), hidden |-> TRUE]>> >>
    ELSE << <<"script.js", [code |-> SCRIPT_CODE(v), hidden |-> TRUE]>>,
            <<"server.js", [code |-> SERVER_CODE(v), hidden |-> TRUE]>>,
            <<"router.js", [code |-> ROUTER_CODE, hidden |-> TRUE]>>,
            <<"serverIndex.html", [code |-> HTML_CODE(v), hidden |-> TRUE]>>,
            <<"ClientRoot.js", [code |-> CLIENT_ROOT, hidden |-> TRUE]>>,
            <<"package.json", [code |-> JSONStringify(PackageManifest(v)), hidden |-> TRUE]>> >>

RECURSIVE PutAll(_, _)
PutAll(obj, assignments) ==
    IF assignments = <<>> THEN obj
    ELSE PutAll(Put(obj, assignments[1][1], assignments[1][2]), Tail(assignments))

\* The file map after lines 220-284: createFileMap, the stylesheet
\* assignment, then the demo-mode assignments.
AssembleFiles_FromEmpty(v, p) ==
    LET fs0 == createFileMap(p.children)
        fs1 == Put(fs0, StylesPath, StylesheetEntry(fs0))
    IN  IF ServerComponents(p)
        THEN PutAll(Put(<<>>, StylesPath, StylesheetEntry(fs0)), InjectedFiles(v))
        ELSE fs1

AssembleFiles_AuthorWins(v, p) ==
    LET fs0 == createFileMap(p.children)
        fs1 == Put(fs0, StylesPath, StylesheetEntry(fs0))
        inj == PutAll(<<>>, InjectedFiles(v))
    IN  IF ServerComponents(p)
        THEN [k \in DOMAIN fs1 \cup DOMAIN inj |-> IF k \in DOMAIN fs1 THEN fs1[k] ELSE inj[k]]
        ELSE fs1

AssembleFiles(v, p) ==
    LET fs0 == createFileMap(p.children)
        fs1 == Put(fs0, StylesPath, StylesheetEntry(fs0))
    IN  IF ServerComponents(p) THEN PutAll(fs1, InjectedFiles(v)) ELSE fs1

BaseOptions(p) ==
    [autorun |-> Autorun(p),
     initMode |-> "user-visible",
     initModeObserverOptions |-> [rootMargin |-> "1400px 0px"],
     logLevel |-> "SandpackLogLevel.None"]

\* {...baseOptions, bundlerURL: ...}
WithBundlerURL(base) ==
    [k \in DOMAIN base \cup {"bundlerURL"} |->
        IF k = "bundlerURL" THEN BundlerURL ELSE base[k]]

Options_AlwaysBundlerURL(p) == WithBundlerURL(BaseOptions(p))

Options(p) ==
    IF ServerComponents(p) THEN BaseOptions(p) ELSE WithBundlerURL(BaseOptions(p))

Template(p) == IF ServerComponents(p) THEN Undefined ELSE Some("react")

CustomSetup(p) ==
    IF ServerComponents(p)
    THEN Some([entry |-> "server.js", environment |-> "node"])
    ELSE Undefined

\* What one call of SandpackRoot hands to SandpackProvider.
SandpackRoot(v, p) ==
    IF StylesheetThrows(createFileMap(p.children))
    THEN [threw |-> TRUE, files |-> <<>>, options |-> <<>>,
          template |-> Undefined, customSetup |-> Undefined]
    ELSE [threw |-> FALSE,
          files |-> AssembleFiles(v, p),
          options |-> Options(p),
          template |-> Template(p),
          customSetup |-> CustomSetup(p)]

(***************************************************************************)
(* Contents.                                                               *)
(***************************************************************************)
\* if (!lineCountRef.current[activeFile]) {
\*   lineCountRef.current[activeFile] = code.split('\n').length; }
LineCountRefAfterRender_Recompute(ref, activeFile, code) ==
    Put(ref, activeFile, SplitLength(code))

LineCountRefAfterRender(ref, activeFile, code) ==
    IF activeFile \notin DOMAIN ref \/ ref[activeFile] = 0
    THEN Put(ref, activeFile, SplitLength(code))
    ELSE ref

\* const isExpandable = lineCount > 16;
IsExpandable_AtLeast(lineCount) == lineCount >= 16

IsExpandable(lineCount) == lineCount > 16

\* const {code} = useActiveCode();
ActiveCode(sp) == sp.files[sp.activeFile].code

(***************************************************************************)
(* The inputs.                                                             *)
(***************************************************************************)
\* An author text of n lines (n = 0: the empty text, which splits into one
\* segment).
AuthorText(n) == [i \in 1..(2 * n - 1) |-> IF i % 2 = 1 THEN "x" ELSE NL]

AuthorPaths == {StylesPath, "/App.js", "script.js", "router.js"}

AuthorCodes == {AuthorText(0), AuthorText(16), AuthorText(17)}

Snippets == [path : AuthorPaths, code : AuthorCodes, hidden : BOOLEAN]

\* Ordered snippets with pairwise distinct paths.
ChildrenUpTo(n) ==
    {c \in UNION {[1..k -> Snippets] : k \in 0..n} :
        \A i, j \in DOMAIN c : c[i].path = c[j].path => i = j}

OptionalBoolean == {Undefined, Some(TRUE), Some(FALSE)}

PropsUpTo(n) ==
    [children : ChildrenUpTo(n), autorun : OptionalBoolean, serverComponents : OptionalBoolean]

NoSandpack == [files |-> <<>>, activeFile |-> ""]

InitWith(space) ==
    /\ variant \in Variants
    /\ props \in space
    /\ phase = "props"
    /\ threw = FALSE
    /\ files = <<>>
    /\ options = <<>>
    /\ template = Undefined
    /\ customSetup = Undefined
    /\ sandpack = NoSandpack
    /\ mounted = FALSE
    /\ lineCountRef = <<>>
    /\ isExpandable = FALSE
    /\ firstSeen = <<>>
    /\ edits = 0
    /\ isExpanded = FALSE
    /\ layoutClass = <<>>

\* The page's fetch has not been called, the entry script has not been run.
IdleFetcher ==
    [options |-> Undefined, pc |-> "idle", i |-> 0, attempts |-> <<>>,
     slept |-> 0, caught |-> Undefined, result |-> Undefined]

IdleScript ==
    [report |-> [err |-> Undefined, stats |-> Undefined], pc |-> "idle",
     promise |-> "none", settles |-> <<>>, listening |-> FALSE,
     served |-> Undefined, console |-> <<>>]

Init == InitWith(PropsUpTo(MaxFiles)) /\ fetcher = IdleFetcher /\ script = IdleScript

(***************************************************************************)
(* The steps.                                                              *)
(***************************************************************************)
Provide(v, p) ==
    /\ \E out \in {SandpackRoot(v, p)} :
        /\ threw' = out.threw
        /\ files' = out.files
        /\ options' = out.options
        /\ template' = out.template
        /\ customSetup' = out.customSetup

\* React calls SandpackRoot with the page's props.
RenderRoot ==
    /\ phase = "props"
    /\ phase' = "rendered"
    /\ Provide(variant, props)
    /\ UNCHANGED <<variant, props, contentsVars, shellVars, demoVars>>

\* The page re-renders the sandbox with one of its flags changed; the file
\* map and the configuration are rebuilt from the current children.
RerenderRoot ==
    /\ phase = "rendered"
    /\ ~mounted
    /\ \E a \in OptionalBoolean, sc \in OptionalBoolean :
          /\ (a = props.autorun) # (sc = props.serverComponents)
          /\ props' = [props EXCEPT !.autorun = a, !.serverComponents = sc]
          /\ Provide(variant, props')
    /\ UNCHANGED <<variant, phase, contentsVars, shellVars, demoVars>>

\* cond && 'names' : the names when cond holds, and false otherwise.
AndClass(cond, names) == IF cond THEN Some(names) ELSE Undefined

\* cn(...args) of classnames: the truthy arguments, joined by a space.
cn(args) ==
    Join([i \in 1..Len(SelectSeq(args, LAMBDA a : a # Undefined)) |->
             <<TheValue(SelectSeq(args, LAMBDA a : a # Undefined)[i])>>],
         <<" ">>)

\* The className SandboxShell gives to SandpackLayout.
LayoutClassName_CollapsedWhenExpandable(expandable, expanded) ==
    cn(<<AndClass(~expanded, "rounded-b-lg overflow-hidden"),
         AndClass(expanded, "sp-layout-expanded")>>)

LayoutClassName(expandable, expanded) ==
    cn(<<AndClass(~(expandable \/ expanded), "rounded-b-lg overflow-hidden"),
         AndClass(expanded, "sp-layout-expanded")>>)

\* One render of SandboxShell with the flag Contents passes down.  The
\* component holds isExpanded in useState(false); nothing it renders is given
\* setIsExpanded, so a render leaves the state as it is.
RenderShell(expandable) ==
    /\ layoutClass' = LayoutClassName(expandable, isExpanded)
    /\ UNCHANGED isExpanded

\* One render of Contents against the provider state sp.
RenderContents(sp) ==
    /\ sandpack' = sp
    /\ lineCountRef' = LineCountRefAfterRender(lineCountRef, sp.activeFile, ActiveCode(sp))
    /\ isExpandable' = IsExpandable(lineCountRef'[sp.activeFile])
    /\ firstSeen' = IF sp.activeFile \in DOMAIN firstSeen
                    THEN firstSeen
                    ELSE Put(firstSeen, sp.activeFile, ActiveCode(sp))
    /\ RenderShell(isExpandable')

\* The provider takes the file map and picks an active file; Contents
\* renders for the first time.
MountContents ==
    /\ phase = "rendered"
    /\ ~threw
    /\ ~mounted
    /\ mounted' = TRUE
    /\ \E a \in DOMAIN files : RenderContents([files |-> files, activeFile |-> a])
    /\ UNCHANGED <<rootVars, edits, demoVars>>

EditTexts == {AuthorText(0), AuthorText(16), AuthorText(17)}

\* The user edits the active file in the editor; Contents re-renders.
UpdateCode ==
    /\ mounted
    /\ edits < MaxEdits
    /\ edits' = edits + 1
    /\ \E text \in EditTexts :
          /\ text # ActiveCode(sandpack)
          /\ RenderContents([sandpack EXCEPT !.files[sandpack.activeFile].code = text])
    /\ UNCHANGED <<rootVars, mounted, demoVars>>

\* The user switches to another file; Contents re-renders.
SetActiveFile ==
    /\ mounted
    /\ \E path \in DOMAIN sandpack.files :
          /\ path # sandpack.activeFile
          /\ RenderContents([sandpack EXCEPT !.activeFile = path])
    /\ UNCHANGED <<rootVars, mounted, edits, demoVars>>

Next == RenderRoot \/ RerenderRoot

Spec == Init /\ [][Next]_vars

(***************************************************************************)
(* Contents on its own: the sandboxes of a page in plain (non-demo) mode   *)
(* with files at two paths, every one of them shown as a tab.  Contents    *)
(* reads nothing of the file map but the active file's path and text.      *)
(***************************************************************************)
ContentsProps ==
    {p \in PropsUpTo(MaxFiles) :
        /\ p.autorun = Undefined
        /\ p.serverComponents = Undefined
        /\ \A i \in DOMAIN p.children :
              /\ p.children[i].path \in {StylesPath, "/App.js"}
              /\ ~p.children[i].hidden}

InitContents == InitWith(ContentsProps) /\ fetcher = IdleFetcher /\ script = IdleScript

NextContents == RenderRoot \/ MountContents \/ UpdateCode \/ SetActiveFile

SpecContents == InitContents /\ [][NextContents]_vars

(***************************************************************************)
(* Vocabulary of the properties.                                           *)
(***************************************************************************)
Rendered == phase = "rendered"

DemoMode == props.serverComponents = Some(TRUE)

AuthorSupplied(path) == \E i \in DOMAIN props.children : props.children[i].path = path

AuthorSnippet(path) ==
    props.children[CHOOSE i \in DOMAIN props.children : props.children[i].path = path]

AuthorRecord(path) ==
    [code |-> AuthorSnippet(path).code, hidden |-> AuthorSnippet(path).hidden]

AuthorPathsOf(ch) == {ch[i].path : i \in DOMAIN ch}

\* The five paths the specification names.
FiveBoilerplatePaths ==
    {"script.js", "server.js", "router.js", "serverIndex.html", "package.json"}

\* The paths the demo block of each revision assigns.
InjectedKeys(v) ==
    IF v = Named
    THEN {"script.js", "server.js", "serverIndex.html", "package.json"}
    ELSE {"script.js", "server.js", "router.js", "serverIndex.html",
          "ClientRoot.js", "package.json"}

AllBoilerplatePaths == InjectedKeys(Named) \cup InjectedKeys(Unnamed)

(***************************************************************************)
(* File-map assembly.                                                      *)
(***************************************************************************)
\* C1: whatever the author files and the serverComponents flag, the file map
\* has a '/styles.css' entry whose code begins with sandboxStyle; when the
\* author supplied a stylesheet its code follows, after a blank line.
C1_StylesheetBeginsWithBase ==
    Rendered =>
        /\ StylesPath \in DOMAIN files
        /\ IsPrefix(sandboxStyle, files[StylesPath].code)
        /\ AuthorSupplied(StylesPath) =>
              files[StylesPath].code
                  = sandboxStyle \o <<NL, NL>> \o AuthorSnippet(StylesPath).code

C1_Witness ==
    /\ Rendered
    /\ DemoMode
    /\ AuthorSupplied(StylesPath)
    /\ AuthorSnippet(StylesPath).code = AuthorText(17)
    /\ Len(files[StylesPath].code) > Len(sandboxStyle)

\* C2 (as claimed): the stylesheet entry is hidden exactly when the author
\* supplied no stylesheet or supplied one that is not marked visible; a
\* stylesheet record {code, hidden} marked visible (hidden = false) is shown.
C2_HiddenUnlessMarkedVisible ==
    Rendered =>
        files[StylesPath].hidden
            = ~(AuthorSupplied(StylesPath) /\ ~AuthorSnippet(StylesPath).hidden)

C4_NoInjectionOutsideDemo ==
    (Rendered /\ ~DemoMode) =>
        \A path \in AllBoilerplatePaths :
            /\ path \in DOMAIN files <=> AuthorSupplied(path)
            /\ AuthorSupplied(path) => files[path] = AuthorRecord(path)

C4_Witness ==
    /\ Rendered
    /\ props.serverComponents = Undefined
    /\ AuthorSupplied("script.js")
    /\ files["script.js"] = AuthorRecord("script.js")
    /\ "server.js" \notin DOMAIN files

\* C7: the provider configuration has two outcomes, chosen by the demo flag;
\* autorun follows the prop (default true) and initMode is 'user-visible' in
\* both.
C7_ProviderConfiguration ==
    Rendered =>
        /\ IF DemoMode
           THEN /\ customSetup = Some([entry |-> "server.js", environment |-> "node"])
                /\ template = Undefined
                /\ "bundlerURL" \notin DOMAIN options
                /\ options.logLevel = "SandpackLogLevel.None"
           ELSE /\ template = Some("react")
                /\ customSetup = Undefined
                /\ "bundlerURL" \in DOMAIN options
                /\ options.bundlerURL = BundlerURL
        /\ options.autorun = (props.autorun # Some(FALSE))
        /\ options.initMode = "user-visible"

C7_Witness ==
    /\ Rendered
    /\ DemoMode
    /\ props.autorun = Undefined
    /\ options.autorun = TRUE
    /\ customSetup # Undefined

\* C8: assembly never throws; without an author stylesheet the stylesheet code
\* is the base stylesheet joined with the empty string.
C8_NoErrorOutcome ==
    Rendered =>
        /\ ~threw
        /\ DOMAIN files # {}
        /\ ~AuthorSupplied(StylesPath) =>
              files[StylesPath].code = Join(<<sandboxStyle, <<>>>>, <<NL, NL>>)

C8_Witness ==
    /\ Rendered
    /\ props.children = <<>>
    /\ ~threw
    /\ DOMAIN files = {StylesPath}

\* C9: in demo mode every injected entry carries its template unmodified, and
\* is the entry of the run with no author files, whatever the autorun flag:
\* so any two runs of a revision agree on the injected entries.
C9_BoilerplateUnmodified ==
    (Rendered /\ DemoMode) =>
        /\ files["script.js"].code = SCRIPT_CODE(variant)
        /\ files["server.js"].code = SERVER_CODE(variant)
        /\ files["serverIndex.html"].code = HTML_CODE(variant)
        /\ files["package.json"].code = JSONStringify(PackageManifest(variant))
        /\ variant = Unnamed =>
              /\ files["router.js"].code = ROUTER_CODE
              /\ files["ClientRoot.js"].code = CLIENT_ROOT
        /\ \A a \in OptionalBoolean :
              LET base == AssembleFiles(variant, [children |-> <<>>, autorun |-> a,
                                                  serverComponents |-> Some(TRUE)])
              IN  \A path \in InjectedKeys(variant) : files[path] = base[path]

C9_Witness ==
    /\ Rendered
    /\ DemoMode
    /\ props.autorun = Some(FALSE)
    /\ AuthorSupplied("script.js")
    /\ AuthorSupplied("/App.js")
    /\ files["script.js"].code = SCRIPT_CODE(variant)

\* C10: every author file that is neither the stylesheet nor (in demo mode) an
\* injected path is in the file map as createFileMap gave it, and the map has
\* no keys but the author's paths, the stylesheet and the injected paths.
C10_AuthorFilesPreserved ==
    Rendered =>
        LET injected == IF DemoMode THEN InjectedKeys(variant) ELSE {}
        IN  /\ \A i \in DOMAIN props.children :
                  props.children[i].path \notin injected \cup {StylesPath} =>
                      /\ props.children[i].path \in DOMAIN files
                      /\ files[props.children[i].path]
                            = [code |-> props.children[i].code,
                               hidden |-> props.children[i].hidden]
            /\ DOMAIN files = AuthorPathsOf(props.children) \cup {StylesPath} \cup injected

C10_Witness ==
    /\ Rendered
    /\ DemoMode
    /\ AuthorSupplied("/App.js")
    /\ AuthorSupplied("script.js")
    /\ files["/App.js"] = AuthorRecord("/App.js")

(***************************************************************************)
(* Contents.                                                               *)
(***************************************************************************)
\* C5: the flag shown for the active file is false when the file's first-seen
\* text has 16 lines or fewer (the empty text has one) and true when it has
\* more; 16 lines give false, 17 give true.
C5_ExpandableThreshold ==
    mounted =>
        LET text == firstSeen[sandpack.activeFile]
        IN  /\ SplitLength(text) <= 16 => isExpandable = FALSE
            /\ SplitLength(text) > 16 => isExpandable = TRUE
            /\ text = <<>> => isExpandable = FALSE
            /\ text = AuthorText(16) => isExpandable = FALSE
            /\ text = AuthorText(17) => isExpandable = TRUE

C5_Witness ==
    /\ mounted
    /\ sandpack.activeFile = "/App.js"
    /\ firstSeen["/App.js"] = AuthorText(16)
    /\ SplitLength(firstSeen["/App.js"]) = 16
    /\ isExpandable = FALSE

\* C6: a cached line count is never recomputed, changed or evicted, so after
\* every render the count and the flag of the active file are those of its
\* first-seen text, whatever its text is now.
C6_OneShotMemoization ==
    [][/\ \A path \in DOMAIN lineCountRef :
             path \in DOMAIN lineCountRef' /\ lineCountRef'[path] = lineCountRef[path]
       /\ mounted' =>
             /\ lineCountRef'[sandpack'.activeFile]
                   = SplitLength(firstSeen'[sandpack'.activeFile])
             /\ isExpandable' = (SplitLength(firstSeen'[sandpack'.activeFile]) > 16)]_vars

C6_Witness ==
    /\ mounted
    /\ edits > 0
    /\ sandpack.activeFile = "/App.js"
    /\ StylesPath \in DOMAIN lineCountRef
    /\ SplitLength(firstSeen["/App.js"]) <= 16
    /\ SplitLength(ActiveCode(sandpack)) > 16
    /\ lineCountRef["/App.js"] = SplitLength(firstSeen["/App.js"])
    /\ isExpandable = FALSE

(***************************************************************************)
(* SandboxShell.  The user's interactions with the shell are those of      *)
(* SpecContents; the user keeps interacting for as long as an interaction  *)
(* is possible.                                                            *)
(***************************************************************************)
SpecShell == InitContents /\ [][NextContents]_vars /\ WF_vars(NextContents)

CollapsedClass == "rounded-b-lg overflow-hidden"

ExpandedClass == "sp-layout-expanded"

HasClass(class) == \E i \in DOMAIN layoutClass : layoutClass[i] = class

\* The styling follows the two flags.
LayoutFollowsFlags ==
    mounted =>
        /\ HasClass(CollapsedClass) <=> ~(isExpandable \/ isExpanded)
        /\ HasClass(ExpandedClass) <=> isExpanded

C11_NeverExpanded ==
    /\ LayoutFollowsFlags
    /\ ~isExpanded
    /\ ~HasClass(ExpandedClass)

C11_Witness ==
    /\ mounted
    /\ edits = MaxEdits
    /\ isExpandable
    /\ layoutClass = <<>>

(***************************************************************************)
(* What the demo configuration refers to.                                  *)
(***************************************************************************)
\* The files the entry script names relative to __dirname when it starts:
\* require('./App.js') (part_000 only), webpack's entry ./server.js, and the
\* HTML shell it serves.
EntryScriptReferences(v) ==
    IF v = Named
    THEN {"./server.js", "./serverIndex.html"}
    ELSE {"./App.js", "./server.js", "./serverIndex.html"}

\* path.resolve(__dirname, rel) for the entry script, which sits in the root
\* directory of the sandbox.
ResolveFromRoot(rel) ==
    CASE rel = "./App.js" -> "/App.js"
      [] rel = "./server.js" -> "/server.js"
      [] rel = "./serverIndex.html" -> "/serverIndex.html"
      [] rel = "script.js" -> "/script.js"
      [] rel = "server.js" -> "/server.js"
      [] OTHER -> rel

\* A key of the file map as an absolute path: a key without a leading slash
\* names the file of that name in the root directory.
AbsoluteKey(key) ==
    CASE key = "script.js" -> "/script.js"
      [] key = "server.js" -> "/server.js"
      [] key = "router.js" -> "/router.js"
      [] key = "serverIndex.html" -> "/serverIndex.html"
      [] key = "ClientRoot.js" -> "/ClientRoot.js"
      [] key = "package.json" -> "/package.json"
      [] OTHER -> key

FileExists(fs, absolute) == \E key \in DOMAIN fs : AbsoluteKey(key) = absolute

\* A member of a JSON object value.
Member(value, name) ==
    value.obj[CHOOSE i \in DOMAIN value.obj : value.obj[i][1] = name][2]

\* main of the manifest.
ManifestMain(v) == Member(PackageManifest(v), "main").str

\* The file run by the manifest's start script, 'node <file>'.
ManifestStartTarget(v) ==
    CASE Member(Member(PackageManifest(v), "scripts"), "start").str = "node script.js"
           -> "script.js"

\* Everything the configuration, the manifest and the entry script refer to.
ReferencedFiles(v, setup) ==
    {ResolveFromRoot(TheValue(setup).entry),
     ResolveFromRoot(ManifestMain(v)),
     ResolveFromRoot(ManifestStartTarget(v))}
    \cup {ResolveFromRoot(rel) : rel \in EntryScriptReferences(v)}

\* C12 (as claimed): in demo mode the customSetup entry, the manifest's main
\* and start target, and every file the entry script reads or requires from
\* its directory at start-up are in the file map, for every author file set.
C12_ReferencedFilesExist ==
    (Rendered /\ DemoMode) =>
        \A absolute \in ReferencedFiles(variant, customSetup) : FileExists(files, absolute)

\* What holds: everything referred to is in the file map except './App.js',
\* which part_000's entry script requires and which is there only when the
\* author supplied it.
C12_AllButAppExist ==
    (Rendered /\ DemoMode) =>
        \A absolute \in ReferencedFiles(variant, customSetup) :
            FileExists(files, absolute)
                <=> (absolute = "/App.js" => AuthorSupplied("/App.js"))

(***************************************************************************)
(* HTML_CODE: window.fetch = async function fetchWithRetry(...args).       *)
(* fetcher.attempts is the history of the calls of nativeFetch with their  *)
(* outcomes, fetcher.slept the time spent in setTimeout.                   *)
(***************************************************************************)
RetryLimit == 4         \* for (let i = 0; i < 4; i++)
RetryDelayMs == 500     \* setTimeout(resolve, 500)

Errors == {"e1", "e2"}
Responses == {"r1"}

\* args[1]: absent, or an init object with or without a method.
FetchOptions ==
    {Undefined, Some([headers |-> "h"]), Some([method |-> "GET"]),
     Some([method |-> "POST"]), Some([method |-> "DELETE"])}

\* What one call of nativeFetch may do.
FetchOutcomes ==
    {[ok |-> TRUE, value |-> r] : r \in Responses}
        \cup {[ok |-> FALSE, value |-> e] : e \in Errors}

\* obj.field, undefined when the object has no such property
Field(obj, field) == IF field \in DOMAIN obj THEN Some(obj[field]) ELSE Undefined

\* if (args[1] && args[1].method !== 'GET')
ShouldRethrow_Never(opts) == FALSE

ShouldRethrow(opts) == opts # Undefined /\ Field(TheValue(opts), "method") # Some("GET")

Fulfilled(value) == Some([status |-> "fulfilled", value |-> value])
Rejected(value) == Some([status |-> "rejected", value |-> value])

DemoProps == [children |-> <<>>, autorun |-> Undefined, serverComponents |-> Some(TRUE)]

InitFetch ==
    /\ InitWith({DemoProps})
    /\ \E opts \in FetchOptions : fetcher = [IdleFetcher EXCEPT !.options = opts]
    /\ script = IdleScript

\* The page calls window.fetch.
FetchCall ==
    /\ fetcher.pc = "idle"
    /\ fetcher' = [fetcher EXCEPT !.pc = "loop", !.i = 0]
    /\ UNCHANGED <<componentVars, script>>

\* i < 4 ?
FetchLoopTest ==
    /\ fetcher.pc = "loop"
    /\ fetcher' = [fetcher EXCEPT !.pc = IF fetcher.i < RetryLimit THEN "try" ELSE "final"]
    /\ UNCHANGED <<componentVars, script>>

\* try { return await nativeFetch(...args); } catch (e) {
FetchTry ==
    /\ fetcher.pc = "try"
    /\ \E out \in FetchOutcomes :
          fetcher' = [fetcher EXCEPT
                         !.attempts = Append(@, out),
                         !.pc = IF out.ok THEN "done" ELSE "catch",
                         !.result = IF out.ok THEN Fulfilled(out.value) ELSE @,
                         !.caught = IF out.ok THEN @ ELSE Some(out.value)]
    /\ UNCHANGED <<componentVars, script>>

\* if (args[1] && args[1].method !== 'GET') throw e;  else start the timer
FetchCatch ==
    /\ fetcher.pc = "catch"
    /\ fetcher' = IF ShouldRethrow(fetcher.options)
                  THEN [fetcher EXCEPT !.pc = "done",
                                       !.result = Rejected(TheValue(fetcher.caught))]
                  ELSE [fetcher EXCEPT !.pc = "sleep"]
    /\ UNCHANGED <<componentVars, script>>

\* The timer fires; i++.
FetchTimer ==
    /\ fetcher.pc = "sleep"
    /\ fetcher' = [fetcher EXCEPT !.slept = @ + RetryDelayMs, !.i = @ + 1, !.pc = "loop"]
    /\ UNCHANGED <<componentVars, script>>

\* return nativeFetch(...args);
FetchFinal ==
    /\ fetcher.pc = "final"
    /\ \E out \in FetchOutcomes :
          fetcher' = [fetcher EXCEPT
                         !.attempts = Append(@, out),
                         !.pc = "done",
                         !.result = IF out.ok THEN Fulfilled(out.value)
                                    ELSE Rejected(out.value)]
    /\ UNCHANGED <<componentVars, script>>

NextFetch ==
    FetchCall \/ FetchLoopTest \/ FetchTry \/ FetchCatch \/ FetchTimer \/ FetchFinal

SpecFetch == InitFetch /\ [][NextFetch]_vars

\* The request's options specify a method other than 'GET'.
SpecifiesMutation ==
    /\ fetcher.options # Undefined
    /\ "method" \in DOMAIN TheValue(fetcher.options)
    /\ TheValue(fetcher.options).method # "GET"

\* A GET request: no options, or options with method 'GET'.
IsPlainGet ==
    \/ fetcher.options = Undefined
    \/ /\ "method" \in DOMAIN TheValue(fetcher.options)
       /\ TheValue(fetcher.options).method = "GET"

FailedAttempts == {k \in DOMAIN fetcher.attempts : ~fetcher.attempts[k].ok}

\* C13: at most 5 calls of nativeFetch (4 in the loop and a final one); the
\* first success ends the call and is its result; a request whose options
\* specify a method other than 'GET' is tried once and its failure rethrown;
\* a GET request is retried after every failure, 500 ms after it, and fails
\* only with the failure of the fifth call.
C13_RetryButNotMutations ==
    LET a == fetcher.attempts
        done == fetcher.pc = "done"
    IN  /\ Len(a) <= 5
        /\ \A k \in DOMAIN a :
              a[k].ok => k = Len(a) /\ done /\ fetcher.result = Fulfilled(a[k].value)
        /\ SpecifiesMutation =>
              /\ Len(a) <= 1
              /\ fetcher.slept = 0
              /\ (done /\ FailedAttempts # {}) => fetcher.result = Rejected(a[1].value)
        /\ IsPlainGet =>
              /\ fetcher.pc \in {"loop", "try", "final"} =>
                    fetcher.slept = 500 * Cardinality(FailedAttempts)
              /\ (done /\ FailedAttempts = DOMAIN a) =>
                    /\ Len(a) = 5
                    /\ fetcher.slept = 2000
                    /\ fetcher.result = Rejected(a[5].value)
        /\ done => fetcher.result # Undefined

C13_Witness ==
    /\ fetcher.pc = "done"
    /\ fetcher.options = Some([method |-> "GET"])
    /\ Len(fetcher.attempts) = 5
    /\ fetcher.attempts[5].ok
    /\ fetcher.slept = 2000
    /\ fetcher.result = Fulfilled("r1")

(***************************************************************************)
(* SCRIPT_CODE: the entry script run by 'node script.js'.                  *)
(* script.report is what webpack hands to the callback, script.settles the *)
(* history of the calls of reject and resolve.                             *)
(***************************************************************************)
\* (err, stats) as webpack may report them.
WebpackErrs == {Undefined, Some([details |-> Undefined]), Some([details |-> Some("details")])}

WebpackStats ==
    {Undefined, Some([errors |-> <<>>]), Some([errors |-> <<"x">>]),
     Some([errors |-> <<"x", "y">>])}

WebpackReports == [err : WebpackErrs, stats : WebpackStats]

\* stats?.hasErrors()
StatsHasErrors(stats) == stats # Undefined /\ TheValue(stats).errors # <<>>

\* The calls of reject and resolve made by one run of the callback, in order.
CallbackSettles(report) ==
    (IF report.err # Undefined THEN <<"reject">> ELSE <<>>)
        \o (IF StatsHasErrors(report.stats) THEN <<"reject">> ELSE <<"resolve">>)

\* What the callback writes to the console.
CallbackConsole(report) ==
    (IF report.err # Undefined
     THEN <<"err.stack || err">>
          \o (IF TheValue(report.err).details # Undefined THEN <<"err.details">> ELSE <<>>)
     ELSE <<>>)
        \o (IF StatsHasErrors(report.stats)
            THEN <<"Finished running webpack with errors.">> \o TheValue(report.stats).errors
            ELSE <<"Finished running webpack.">>)

\* resolve() or reject() on a promise: only a pending promise is settled.
SettlePromise_LastWins(promise, call) ==
    IF call = "resolve" THEN "fulfilled" ELSE "rejected"

SettlePromise(promise, call) ==
    IF promise = "pending"
    THEN (IF call = "resolve" THEN "fulfilled" ELSE "rejected")
    ELSE promise

RECURSIVE SettleAll(_, _)
SettleAll(promise, calls) ==
    IF calls = <<>> THEN promise
    ELSE SettleAll(SettlePromise(promise, Head(calls)), Tail(calls))

\* switch (req.url) of the request listener: the file served, if any.
Serve(v, url) ==
    CASE url = "/" -> Some([status |-> 200, type |-> "text/html", body |-> "./serverIndex.html"])
      [] url = "/main.js" ->
            Some([status |-> 200, type |-> "text/javascript", body |-> "./build/main.js"])
      [] url = "/client0.main.js" /\ v = Unnamed ->
            Some([status |-> 200, type |-> "text/javascript", body |-> "./build/client0.main.js"])
      [] url = "/react" /\ v = Unnamed ->
            Some([status |-> 200, type |-> "react", body |-> "./build/react-client-manifest.json"])
      [] OTHER -> Undefined

RequestUrls == {"/", "/main.js", "/client0.main.js", "/react", "/favicon.ico"}

ScriptProps ==
    {[DemoProps EXCEPT !.children = c] :
        c \in {<<>>, <<[path |-> "/App.js", code |-> AuthorText(17), hidden |-> FALSE]>>}}

InitScript ==
    /\ InitWith(ScriptProps)
    /\ fetcher = IdleFetcher
    /\ \E report \in WebpackReports : script = [IdleScript EXCEPT !.report = report]

\* node script.js: the requires at the top of the script, then main(), which
\* calls build(), which hands the configuration and the callback to webpack.
\* part_000 requires './App.js' first, and ends there when it is missing.
ScriptStart ==
    /\ script.pc = "idle"
    /\ script' = IF \A rel \in EntryScriptReferences(variant) :
                        rel = "./App.js" =>
                            FileExists(AssembleFiles(variant, props), ResolveFromRoot(rel))
                  THEN [script EXCEPT !.pc = "building", !.promise = "pending"]
                  ELSE [script EXCEPT !.pc = "crashed"]
    /\ UNCHANGED <<componentVars, fetcher>>

\* webpack calls back with (err, stats); the callback runs to its end.
WebpackCallback ==
    /\ script.pc = "building"
    /\ script' = [script EXCEPT
                     !.pc = "built",
                     !.settles = CallbackSettles(script.report),
                     !.promise = SettleAll(@, CallbackSettles(script.report)),
                     !.console = @ \o CallbackConsole(script.report)]
    /\ UNCHANGED <<componentVars, fetcher>>

\* main() resumes after  await build()  : it goes on to server.listen when
\* the promise is fulfilled and ends with the rejection otherwise.
MainResume ==
    /\ script.pc = "built"
    /\ script.promise # "pending"
    /\ script' = IF script.promise = "fulfilled"
                 THEN [script EXCEPT !.pc = "listening", !.listening = TRUE]
                 ELSE [script EXCEPT !.pc = "failed"]
    /\ UNCHANGED <<componentVars, fetcher>>

\* The listening server gets a request.
HandleRequest ==
    /\ script.pc = "listening"
    /\ \E url \in RequestUrls : script' = [script EXCEPT !.served = Serve(variant, url)]
    /\ UNCHANGED <<componentVars, fetcher>>

NextScript == ScriptStart \/ WebpackCallback \/ MainResume \/ HandleRequest

SpecScript == InitScript /\ [][NextScript]_vars

ReportedErr == script.report.err # Undefined

ReportedStatsErrors ==
    script.report.stats # Undefined /\ Len(TheValue(script.report.stats).errors) > 0

CallbackHasRun == script.pc \in {"built", "listening", "failed"}

\* C14: build()'s promise is fulfilled only if webpack reported neither err
\* nor stats with errors and is rejected in each of those cases, also when
\* the callback calls reject and then resolve; the server listens only once
\* the promise is fulfilled, so never after a failed build.
C14_ListenOnlyAfterBuild ==
    /\ script.promise = "fulfilled" => ~ReportedErr /\ ~ReportedStatsErrors
    /\ CallbackHasRun =>
          /\ script.promise \in {"fulfilled", "rejected"}
          /\ script.promise = "rejected" <=> (ReportedErr \/ ReportedStatsErrors)
          /\ (ReportedErr /\ ~ReportedStatsErrors) => script.settles = <<"reject", "resolve">>
    /\ script.listening =>
          /\ script.promise = "fulfilled"
          /\ ~ReportedErr /\ ~ReportedStatsErrors
    /\ script.served # Undefined => script.listening
    /\ script.pc = "failed" => ~script.listening

C14_Witness ==
    /\ script.pc = "failed"
    /\ ReportedErr
    /\ script.report.stats = Undefined
    /\ script.settles = <<"reject", "resolve">>
    /\ script.promise = "rejected"
    /\ ~script.listening

====
